---- MODULE Spec2Model ----
(***************************************************************************)
(* A model of the transfer engine TransferLogic of fast_transfer           *)
(* (src/unnamed/part_000, class TransferLogic): the planner, the session   *)
(* store, the dual-pool pipeline, cancellation, teardown and resume.       *)
(*                                                                         *)
(* Files are the identifiers 1..NFiles; a file's path is its identifier,   *)
(* so "the same relative path under the target" is "the same identifier    *)
(* in tgtFiles".  Sizes are in MiB.  The disk (source tree, target tree,   *)
(* cache directory with archives, filelists and the session file) lives    *)
(* across runs; everything else is the memory of one TransferLogic         *)
(* instance and is lost when the run ends or the process is killed.        *)
(*                                                                         *)
(* The external archiver (7z) is modelled by what the engine relies on:    *)
(* "create" exits 0 only if every listed source file exists and then       *)
(* leaves a complete archive, a killed or failed create leaves a partial   *)
(* one; "extract" exits 0 only on a complete archive and then every file   *)
(* of the pack is at the target.                                           *)
(***************************************************************************)
EXTENDS Integers, Sequences, FiniteSets, TLC

\* ---------------------------------------------------------------- bounds
NFiles == 2
MaxWorkers == 2
MaxRuns == 2
MaxFaults == 1
NCmdWorkers == 2
NDirs == 3
NDirFiles == 3
NDirTasks == 2
NPlanFiles == 11
MaxTime == 13

\* ------------------------------------------------- program constants (MiB)
LargeCapMb == 256
LargeFloorMb == 16
AvgFactor == 10
ChunkSizeMb == 64
ChunkFileLimit == 20000
Retries == 3
WriteInterval == 5

Files == 1..NFiles
SizeValues == {0, 1, LargeCapMb}
PackIds == 1..NFiles
NoTask == 0
CmdWorkers == 1..NCmdWorkers
\* Directories: source_dir is 0, the directories below it are 1..NDirs
\* (directory d lies in directory d \div 2), the cache directory lies in
\* source_dir.
SourceRoot == 0
SubDirs == 1..NDirs
CacheDirId == NDirs + 1
DirFiles == 1..NDirFiles
DirTasks == 1..NDirTasks

VARIABLES
    \* configuration record given to the constructor
    sizes, copy_only, create_mklink, max_workers, resume_session,
    \* disk
    srcFiles, tgtFiles, archive, filelist, cacheDir, session, sourceRoot,
    \* history of the migration (not program state)
    runNo, scanNo, faults,
    \* memory of the running instance
    pc, raised, stop_event, transfer_failed,
    task_plan, recovery_tasks, total_transfer_size, processed_size,
    last_reported_progress, status_callback, completed_task_ids,
    completed_task_queue,
    writer, submitted, active_futures, tst, cleanup_shutdown,
    \* workers inside _run_command_with_retry, their children, stop()
    cmd, procs, active_processes, stop_pc,
    \* the source directory tree and the workers of _cleanup_empty_dirs
    home, owner, dir_exists, file_exists, walk,
    \* the scan result and the file limit given to the planner
    all_files, chunk_file_limit,
    \* the clock and the locals of _session_writer_loop that depend on it
    now, last_write_time, writer_pc, write_log

config == <<sizes, copy_only, create_mklink, max_workers>>
disk == <<srcFiles, tgtFiles, archive, filelist, cacheDir, session, sourceRoot>>
hist == <<runNo, scanNo, faults>>
progress == <<processed_size, last_reported_progress, status_callback>>
plan == <<task_plan, recovery_tasks, total_transfer_size>>
sessq == <<completed_task_ids, completed_task_queue, writer>>
pool == <<submitted, active_futures, tst, cleanup_shutdown>>
cmdv == <<cmd, procs, active_processes, stop_pc>>
dirv == <<home, owner, dir_exists, file_exists, walk>>
planv == <<all_files, chunk_file_limit>>
\* The state of the unit specifications (CmdSpec, DirSpec, PlanSpec,
\* TimedSpec).
clockv == <<now, last_write_time, writer_pc, write_log>>
units == <<cmdv, dirv, planv, clockv>>
vars == <<config, resume_session, disk, hist, pc, raised, stop_event,
          transfer_failed, plan, progress, sessq, pool, units>>

\* ------------------------------------------------------------- helpers
Max(a, b) == IF a >= b THEN a ELSE b
Min(a, b) == IF a <= b THEN a ELSE b

RECURSIVE SumOver(_, _)
SumOver(f, s) == IF s = <<>> THEN 0 ELSE f[Head(s)] + SumOver(f, Tail(s))

Range(s) == {s[i] : i \in DOMAIN s}

Perms(n) == {p \in [1..n -> 1..n] : \A i, j \in 1..n : p[i] = p[j] => i = j}

\* The session file.  content: "ok" is a document of this source and target;
\* "mismatch" one whose source_dir or target_dir is not the caller's;
\* "truncated" text that is not JSON; "undecodable" bytes that are not UTF-8.
\* status_callback holds what the last call of _update_progress did with the
\* callback: whether it was invoked, the integer percentage, and the last
\* reported percentage it was compared with.
NoCallback == [emitted |-> FALSE, progress |-> 0, last |-> -1]

NoSession == [exists |-> FALSE, content |-> "ok", total |-> 0, task_plan |-> <<>>,
              completed |-> {}]

\* ------------------------------------------------------------- planner
\* os.walk over the source tree: the files present, in directory order.
WalkSource(present) == SelectSeq([i \in 1..NFiles |-> i], LAMBDA f : f \in present)

\* A seeded defect: a file of exactly the threshold size is not large.
IsLargerFile(sz, total, n) ==
    sz * n > Max(Min(AvgFactor * total, LargeCapMb * n), LargeFloorMb * n)

\* size >= max(min(avg * 10, 256 MiB), 16 MiB) with avg = total / n,
\* compared after multiplying both sides by n.
IsLargeFile(sz, total, n) ==
    sz * n >= Max(Min(AvgFactor * total, LargeCapMb * n), LargeFloorMb * n)

\* A seeded defect: chunk_file_limit is the target of every plan.
FileLimitPerPack(nSmall, W, fileLimit) == fileLimit

IdealFilesPerPack(nSmall, W, fileLimit) ==
    IF W > 0 /\ nSmall > 0 THEN (nSmall + W - 1) \div W ELSE fileLimit

\* The chunking loop: seal the current chunk when it is non-empty and either
\* holds `ideal` files or the next file would push it over the byte limit.
RECURSIVE ChunkLoop(_, _, _, _, _, _, _)
ChunkLoop(sz, L, i, cur, curSize, ideal, limit) ==
    IF i > Len(L)
    THEN IF cur # <<>> THEN <<cur>> ELSE <<>>
    ELSE IF cur # <<>> /\ (Len(cur) >= ideal \/ curSize + sz[L[i]] > limit)
         THEN <<cur>> \o ChunkLoop(sz, L, i + 1, <<L[i]>>, sz[L[i]], ideal, limit)
         ELSE ChunkLoop(sz, L, i + 1, Append(cur, L[i]), curSize + sz[L[i]], ideal, limit)

\* A seeded defect: the chunk still open when the list ends is never sealed.
ChunksWithoutLast(sz, L, ideal, limit) ==
    LET c == ChunkLoop(sz, L, 1, <<>>, 0, ideal, limit)
    IN IF c = <<>> THEN c ELSE SubSeq(c, 1, Len(c) - 1)

Chunks(sz, L, ideal, limit) == ChunkLoop(sz, L, 1, <<>>, 0, ideal, limit)

\* The task list of _scan_and_plan for the scanned files `all`, the shuffle
\* `perm` of the small files, W workers; task ids are fresh: idBase + position.
PlanTasks(sz, all, perm, W, limit, fileLimit, idBase) ==
    LET total  == SumOver(sz, all)
        n      == Len(all)
        large  == SelectSeq(all, LAMBDA f : IsLargeFile(sz[f], total, n))
        small  == SelectSeq(all, LAMBDA f : ~IsLargeFile(sz[f], total, n))
        shuf   == [i \in 1..Len(small) |-> small[perm[i]]]
        chunks == Chunks(sz, shuf, IdealFilesPerPack(Len(small), W, fileLimit), limit)
        moves  == [i \in 1..Len(large) |->
                     [type |-> "move_large", files |-> <<large[i]>>,
                      task_id |-> idBase + i, pack_id |-> 0]]
        packs  == [i \in 1..Len(chunks) |->
                     [type |-> "pack", files |-> chunks[i],
                      task_id |-> idBase + Len(large) + i, pack_id |-> i]]
    IN moves \o packs

NumSmall(sz, all) ==
    LET total == SumOver(sz, all)
    IN Len(SelectSeq(all, LAMBDA f : ~IsLargeFile(sz[f], total, Len(all))))

TaskSize(t) == SumOver(sizes, t.files)
TaskIds(s) == {s[i].task_id : i \in DOMAIN s}
\* A seeded defect: the planned tasks are submitted before the recovery tasks.
PlannedFirst == task_plan \o recovery_tasks

AllTasks == recovery_tasks \o task_plan
TaskById(id) == CHOOSE t \in Range(AllTasks) : t.task_id = id

\* ------------------------------------------------------------- instance
\* The fields set by __init__ (the memory of a new TransferLogic).
FreshMemory ==
    /\ pc' = "start"
    /\ raised' = FALSE
    /\ stop_event' = FALSE
    /\ transfer_failed' = FALSE
    /\ task_plan' = <<>>
    /\ recovery_tasks' = <<>>
    /\ total_transfer_size' = 0
    /\ processed_size' = 0
    /\ last_reported_progress' = -1
    /\ status_callback' = NoCallback
    /\ completed_task_ids' = {}
    /\ completed_task_queue' = <<>>
    /\ writer' = [alive |-> TRUE, pending_ids |-> FALSE]
    /\ submitted' = <<>>
    /\ active_futures' = {}
    /\ tst' = <<>>
    /\ cleanup_shutdown' = FALSE

\* A new engine on a source tree whose file sizes are drawn from S.
EngineWith(S) ==
    /\ sizes \in {s \in [Files -> S] : \A i, j \in Files : i <= j => s[i] <= s[j]}
    /\ copy_only \in BOOLEAN
    /\ create_mklink \in BOOLEAN
    /\ max_workers \in 1..MaxWorkers
    /\ resume_session \in BOOLEAN
    /\ srcFiles = Files
    /\ tgtFiles = {}
    /\ archive = [p \in PackIds |-> "none"]
    /\ filelist = {}
    /\ cacheDir = FALSE
    /\ session = NoSession
    /\ sourceRoot = "dir"
    /\ runNo = 1 /\ scanNo = 0 /\ faults = 0
    /\ pc = "start"
    /\ raised = FALSE
    /\ stop_event = FALSE
    /\ transfer_failed = FALSE
    /\ task_plan = <<>>
    /\ recovery_tasks = <<>>
    /\ total_transfer_size = 0
    /\ processed_size = 0
    /\ last_reported_progress = -1
    /\ status_callback = NoCallback
    /\ completed_task_ids = {}
    /\ completed_task_queue = <<>>
    /\ writer = [alive |-> TRUE, pending_ids |-> FALSE]
    /\ submitted = <<>>
    /\ active_futures = {}
    /\ tst = <<>>
    /\ cleanup_shutdown = FALSE

EngineInit == EngineWith(SizeValues)

\* No worker is inside _run_command_with_retry, stop() has not been called.
CmdIdle ==
    /\ cmd = [w \in CmdWorkers |-> [pc |-> "idle", i |-> 0]]
    /\ procs = [w \in CmdWorkers |-> "none"]
    /\ active_processes = {}
    /\ stop_pc = "idle"

DirIdle ==
    /\ home = <<>> /\ owner = <<>>
    /\ dir_exists = {} /\ file_exists = {}
    /\ walk = <<>>

PlanIdle == all_files = <<>> /\ chunk_file_limit = ChunkFileLimit

\* The writer thread has just started: last_write_time = time.time().
ClockIdle ==
    /\ now = 0 /\ last_write_time = 0
    /\ writer_pc = "get" /\ write_log = <<>>

Init == EngineInit /\ CmdIdle /\ DirIdle /\ PlanIdle /\ ClockIdle

\* A disturbance (an archiver call that fails or times out, a filesystem
\* operation that raises, a call of stop()) may happen while the budget
\* lasts; faults = 0 says that the migration has seen none so far.
MayFail == faults < MaxFaults
Fault == faults' = faults + 1

\* ------------------------------------------------------------ progress
\* A seeded defect: a task's bytes are credited twice.
CreditTwice(proc, last, size, failed) ==
    [processed |-> proc + size + size, last |-> last,
     raises |-> total_transfer_size = 0, call |-> status_callback]

\* _update_progress: credit the bytes, then divide by total_transfer_size.
\* A total of 0 raises ZeroDivisionError after the credit.
Credit(proc, last, size, failed) ==
    LET p == proc + size IN
    IF total_transfer_size = 0
    THEN [processed |-> p, last |-> last, raises |-> TRUE, call |-> status_callback]
    ELSE LET pct == (p * 100) \div total_transfer_size
         IN [processed |-> p,
             last |-> IF ~failed /\ pct > last THEN pct ELSE last,
             raises |-> FALSE,
             call |-> [emitted |-> failed \/ pct > last, progress |-> pct,
                       last |-> last]]

\* try: _mark_task_complete(task); _update_progress(task)
\* except: _transfer_failed = True; _update_progress(task, failed=True)
CompleteEffects(id) ==
    LET c1 == Credit(processed_size, last_reported_progress, TaskSize(TaskById(id)), FALSE)
        c2 == Credit(c1.processed, c1.last, TaskSize(TaskById(id)), TRUE)
    IN /\ completed_task_queue' = Append(completed_task_queue, id)
       /\ IF c1.raises
          THEN /\ transfer_failed' = TRUE
               /\ processed_size' = c2.processed
               /\ last_reported_progress' = c2.last
               /\ status_callback' = c2.call
          ELSE /\ transfer_failed' = transfer_failed
               /\ processed_size' = c1.processed
               /\ last_reported_progress' = c1.last
               /\ status_callback' = c1.call

\* except Exception: _transfer_failed = True; _update_progress(task, failed=True)
FailEffects(id) ==
    LET c == Credit(processed_size, last_reported_progress, TaskSize(TaskById(id)), TRUE)
    IN /\ transfer_failed' = TRUE
       /\ processed_size' = c.processed
       /\ last_reported_progress' = c.last
       /\ status_callback' = c.call
       /\ UNCHANGED completed_task_queue

\* --------------------------------------------------------- run(): planning
\* rmtree of the cache directory: archives, filelists and session file go.
CacheWiped ==
    /\ archive' = [p \in PackIds |-> "none"]
    /\ filelist' = {}
    /\ session' = NoSession

\* run(): `if self._stop_event.is_set(): return` at the head of the try block.
RunEarlyReturn ==
    /\ pc = "start" /\ stop_event
    /\ pc' = "finally"
    /\ UNCHANGED <<units, config, resume_session, disk, hist, raised, stop_event,
                   transfer_failed, plan, progress, sessq, pool>>

\* _load_session and, when it returns False, the reset in run().  False is
\* returned for a missing file (IOError), text that is not JSON
\* (JSONDecodeError) and a document of other directories; the
\* UnicodeDecodeError of a file that is not UTF-8 is not caught and leaves
\* run()'s try block.
LoadSession ==
    /\ pc = "start" /\ ~stop_event /\ resume_session
    /\ IF session.exists /\ session.content = "ok"
       THEN LET done == SelectSeq(session.task_plan,
                                  LAMBDA t : t.task_id \in session.completed)
            IN /\ total_transfer_size' = session.total
               /\ completed_task_ids' = session.completed
               /\ processed_size' =
                      SumOver([i \in DOMAIN done |-> SumOver(sizes, done[i].files)],
                              [i \in DOMAIN done |-> i])
               /\ task_plan' = SelectSeq(session.task_plan,
                                         LAMBDA t : t.task_id \notin session.completed)
               /\ pc' = "recover"
               /\ UNCHANGED <<resume_session, disk, raised>>
       ELSE IF session.exists /\ session.content = "undecodable"
       THEN /\ raised' = TRUE
            /\ pc' = "finally"
            /\ UNCHANGED <<resume_session, disk, task_plan, total_transfer_size,
                           processed_size, completed_task_ids>>
       ELSE /\ resume_session' = FALSE
            /\ IF cacheDir THEN cacheDir' = FALSE /\ CacheWiped
                           ELSE UNCHANGED <<cacheDir, archive, filelist, session>>
            /\ task_plan' = <<>>
            /\ total_transfer_size' = 0
            /\ processed_size' = 0
            /\ pc' = "prepare"
            /\ UNCHANGED <<completed_task_ids, srcFiles, tgtFiles, sourceRoot, raised>>
    /\ UNCHANGED <<units, config, hist, stop_event, transfer_failed, recovery_tasks,
                   last_reported_progress, status_callback, completed_task_queue,
                   writer, pool>>

\* _prepare_environment: wipe and recreate the cache directory; an OSError
\* of rmtree or makedirs propagates out of run()'s try block.
PrepareEnvironment ==
    /\ \/ pc = "start" /\ ~stop_event /\ ~resume_session
       \/ pc = "prepare"
    /\ \/ /\ cacheDir' = TRUE /\ CacheWiped
          /\ sourceRoot' = "dir"
          /\ pc' = "scan"
          /\ UNCHANGED <<raised, faults>>
       \/ /\ MayFail /\ Fault
          /\ raised' = TRUE
          /\ pc' = "finally"
          /\ UNCHANGED <<cacheDir, archive, filelist, session, sourceRoot>>
    /\ UNCHANGED <<units, config, resume_session, srcFiles, tgtFiles, runNo, scanNo,
                   stop_event, transfer_failed, plan, progress, sessq, pool>>

\* _scan_and_plan: walk, classify, shuffle, chunk.  os.path.getsize raising
\* anything but FileNotFoundError propagates out of run()'s try block.
ScanAndPlan ==
    /\ pc = "scan"
    /\ LET all == WalkSource(srcFiles) IN
       \/ /\ all = <<>>
          /\ total_transfer_size' = 0
          /\ pc' = "save"
          /\ UNCHANGED <<task_plan, raised, faults, scanNo>>
       \/ /\ all # <<>>
          /\ \E perm \in Perms(NumSmall(sizes, all)) :
                task_plan' = PlanTasks(sizes, all, perm, max_workers, ChunkSizeMb,
                                       ChunkFileLimit, scanNo * (NFiles + 1))
          /\ total_transfer_size' = SumOver(sizes, all)
          /\ scanNo' = scanNo + 1
          /\ pc' = "save"
          /\ UNCHANGED <<raised, faults>>
       \/ /\ all # <<>> /\ MayFail /\ Fault
          /\ raised' = TRUE
          /\ pc' = "finally"
          /\ UNCHANGED <<task_plan, total_transfer_size, scanNo>>
    /\ UNCHANGED <<units, config, resume_session, disk, runNo, stop_event,
                   transfer_failed, recovery_tasks, progress, sessq, pool>>

\* _save_session: the plan with an empty completed list; an IOError is
\* logged and the run goes on without a session file.
SaveSession ==
    /\ pc = "save"
    /\ \/ /\ session' = [exists |-> TRUE, content |-> "ok", total |-> total_transfer_size,
                         task_plan |-> task_plan, completed |-> {}]
          /\ UNCHANGED faults
       \/ /\ MayFail /\ Fault
          /\ UNCHANGED session
    /\ pc' = "dispatch"
    /\ UNCHANGED <<units, config, resume_session, srcFiles, tgtFiles, archive, filelist,
                   cacheDir, sourceRoot, runNo, scanNo, raised, stop_event,
                   transfer_failed, plan, progress, sessq, pool>>

\* A seeded defect: a recovered pack also stays in the fresh plan.
KeepRecovered(plan_, rec) == plan_

\* self.task_plan = [t for t in self.task_plan if t['task_id'] != ...]
WithoutRecovered(plan_, rec) ==
    SelectSeq(plan_, LAMBDA t : t.task_id \notin TaskIds(rec))

\* _plan_recovery_tasks: every stored, not completed pack whose archive file
\* is listed in the cache becomes a resume_extract task (os.listdir order).
PlanRecoveryTasks ==
    /\ pc = "recover"
    /\ IF session.exists /\ cacheDir
       THEN LET rec == SelectSeq(session.task_plan,
                          LAMBDA t : /\ t.type = "pack"
                                     /\ archive[t.pack_id] # "none"
                                     /\ t.task_id \notin completed_task_ids)
            IN /\ \E perm \in Perms(Len(rec)) :
                     recovery_tasks' =
                        [i \in 1..Len(rec) |-> [rec[perm[i]] EXCEPT !.type = "resume_extract"]]
               /\ task_plan' = WithoutRecovered(task_plan, rec)
       ELSE UNCHANGED <<task_plan, recovery_tasks>>
    /\ pc' = "dispatch"
    /\ UNCHANGED <<units, config, resume_session, disk, hist, raised, stop_event,
                   transfer_failed, total_transfer_size, progress, sessq, pool>>

NewTaskState == [pc |-> "queued", attempt |-> 0, del |-> "none", delk |-> 0,
                 reclaimed |-> FALSE]

\* run(): nothing to do, or _execute_plan up to the wait loop: every
\* recovery task, then every planned task, is submitted to the transfer pool.
SubmitAll ==
    /\ pc = "dispatch"
    /\ IF task_plan = <<>> /\ recovery_tasks = <<>>
       THEN /\ pc' = "finally"
            /\ UNCHANGED pool
       ELSE /\ submitted' = [i \in DOMAIN AllTasks |-> AllTasks[i].task_id]
            /\ active_futures' = TaskIds(AllTasks)
            /\ tst' = [id \in TaskIds(AllTasks) |-> NewTaskState]
            /\ pc' = "wait"
            /\ UNCHANGED cleanup_shutdown
    /\ UNCHANGED <<units, config, resume_session, disk, hist, raised, stop_event,
                   transfer_failed, plan, progress, sessq>>

\* ------------------------------------------------------- transfer pool
\* A seeded defect: the workers stop when the wait loop is left.
PoolsAliveWhileWaiting == pc = "wait"

\* The pools exist from _execute_plan's `with` statement until its exit.
PoolsAlive == pc \in {"wait", "joinCleanup", "joinTransfer"}
CleanupPoolAlive == pc \in {"wait", "joinCleanup"}

\* A transfer worker is inside _process_main_task or the done-callback.
Busy(id) == tst[id].pc \in {"packing", "extracting", "submitCleanup"}

IndexOf(id) == CHOOSE i \in DOMAIN submitted : submitted[i] = id

\* A worker takes the oldest pending work item of the FIFO pool.
MayStart(id) ==
    /\ PoolsAlive
    /\ id \in DOMAIN tst
    /\ tst[id].pc = "queued"
    /\ \A j \in 1..(IndexOf(id) - 1) : tst[submitted[j]].pc # "queued"
    /\ Cardinality({i \in DOMAIN tst : Busy(i)}) < max_workers

TaskFrame ==
    UNCHANGED <<units, config, resume_session, cacheDir, session, sourceRoot, runNo, scanNo,
                pc, raised, stop_event, plan, completed_task_ids, writer,
                submitted, cleanup_shutdown>>

NoOutcome == UNCHANGED <<transfer_failed, progress, completed_task_queue>>

\* A failure that follows from the state of the disk, not from the budget.
Bump == faults' = IF faults < MaxFaults THEN faults + 1 ELSE faults

SetPc(id, p) == tst' = [tst EXCEPT ![id].pc = p]

\* A seeded defect: a task whose main phase raised is marked complete.
MainFailedButMarked(id) ==
    /\ tst' = [tst EXCEPT ![id].pc = "failed"]
    /\ active_futures' = active_futures \ {id}
    /\ transfer_failed' = TRUE
    /\ completed_task_queue' = Append(completed_task_queue, id)
    /\ UNCHANGED progress

\* The except branch of _main_task_done_callback: the future is popped,
\* the task is failed, its bytes are credited.
MainFailed(id) ==
    /\ tst' = [tst EXCEPT ![id].pc = "failed"]
    /\ active_futures' = active_futures \ {id}
    /\ FailEffects(id)

\* A seeded defect: the delete job is submitted in every mode.
SubmitsAlways == TRUE

\* `if not self.copy_only:` before the delete_sources job is submitted.
SubmitsDelete == ~copy_only

\* A seeded defect: the cleanup of a pack never waits for the delete job.
AfterMainSkipsDelete == "submitCleanup"

\* The state a pack task is in when _process_main_task has returned and
\* _main_task_done_callback has popped the future.
AfterMain == IF copy_only THEN "submitCleanup" ELSE "awaitDelete"

\* _process_main_task after the pack phase: submit delete_sources to the
\* cleanup pool (not in copy-only mode; submit raises RuntimeError once that
\* pool is shut down), then enter the archiver extract call, which returns
\* at once when the stop flag is set, and then the main done-callback pops
\* the future.
DeleteDispatch(id) ==
    IF SubmitsDelete /\ cleanup_shutdown
    THEN MainFailed(id)
    ELSE /\ tst' = [tst EXCEPT
                      ![id].del = IF SubmitsDelete THEN "run" ELSE "none",
                      ![id].delk = 0,
                      ![id].attempt = 0,
                      ![id].pc = IF stop_event THEN AfterMain ELSE "extracting"]
         /\ active_futures' = IF stop_event THEN active_futures \ {id}
                                            ELSE active_futures
         /\ NoOutcome

\* _process_main_task, pack: write the filelist and enter the archiver
\* create call, which returns at once when the stop flag is set.
StartPack(id) ==
    /\ MayStart(id)
    /\ TaskById(id).type = "pack"
    /\ filelist' = filelist \cup {TaskById(id).pack_id}
    /\ IF stop_event
       THEN /\ DeleteDispatch(id)
            /\ UNCHANGED archive
       ELSE /\ tst' = [tst EXCEPT ![id].pc = "packing", ![id].attempt = 0]
            /\ archive' = [archive EXCEPT ![TaskById(id).pack_id] = "partial"]
            /\ NoOutcome
            /\ UNCHANGED active_futures
    /\ TaskFrame
    /\ UNCHANGED <<srcFiles, tgtFiles, faults>>

\* _process_main_task, resume_extract: the pack phase is skipped.
StartResumeExtract(id) ==
    /\ MayStart(id)
    /\ TaskById(id).type = "resume_extract"
    /\ DeleteDispatch(id)
    /\ TaskFrame
    /\ UNCHANGED <<srcFiles, tgtFiles, archive, filelist, faults>>

\* _process_main_task, move_large, and the done-callback that follows it in
\* the same worker: copy2 (copy-only) or shutil.move, then either complete
\* (copy-only) or go on to submit the empty-directory job.
StartMoveLarge(id) ==
    /\ MayStart(id)
    /\ TaskById(id).type = "move_large"
    /\ LET f == TaskById(id).files[1] IN
       \/ /\ f \in srcFiles
          /\ tgtFiles' = tgtFiles \cup {f}
          /\ active_futures' = active_futures \ {id}
          /\ IF copy_only
             THEN /\ UNCHANGED srcFiles
                  /\ SetPc(id, "done")
                  /\ CompleteEffects(id)
             ELSE /\ srcFiles' = srcFiles \ {f}
                  /\ SetPc(id, "submitCleanup")
                  /\ NoOutcome
          /\ UNCHANGED faults
       \/ /\ \/ f \notin srcFiles /\ Bump
             \/ f \in srcFiles /\ MayFail /\ Fault
          /\ MainFailed(id)
          /\ UNCHANGED <<srcFiles, tgtFiles>>
    /\ TaskFrame
    /\ UNCHANGED <<archive, filelist>>

\* A timeout of attempt i of _run_command_with_retry: retry while
\* i < retries - 1, re-raise on the last attempt.
TimedOut(id) ==
    /\ MayFail \/ tst[id].attempt > 0
    /\ faults' = IF tst[id].attempt = 0 THEN faults + 1 ELSE faults
    /\ IF tst[id].attempt + 1 < Retries
       THEN /\ tst' = [tst EXCEPT ![id].attempt = @ + 1]
            /\ NoOutcome
            /\ UNCHANGED active_futures
       ELSE MainFailed(id)

\* The archiver create call of a pack returns (delete-dispatch and extract
\* follow) or raises.
PackEnd(id) ==
    /\ PoolsAlive
    /\ id \in DOMAIN tst
    /\ tst[id].pc = "packing"
    /\ LET t == TaskById(id) IN
       \/ /\ stop_event
          /\ DeleteDispatch(id)
          /\ UNCHANGED <<archive, faults>>
       \/ /\ ~stop_event
          /\ Range(t.files) \subseteq srcFiles
          /\ archive' = [archive EXCEPT ![t.pack_id] = "complete"]
          /\ DeleteDispatch(id)
          /\ UNCHANGED faults
       \/ /\ ~stop_event
          /\ \/ ~(Range(t.files) \subseteq srcFiles) /\ Bump
             \/ Range(t.files) \subseteq srcFiles /\ MayFail /\ Fault
          /\ MainFailed(id)
          /\ UNCHANGED archive
       \/ /\ ~stop_event
          /\ TimedOut(id)
          /\ UNCHANGED archive
    /\ TaskFrame
    /\ UNCHANGED <<srcFiles, tgtFiles, filelist>>

\* The archiver extract call returns or raises; on return the main
\* done-callback pops the future.
ExtractEnd(id) ==
    /\ PoolsAlive
    /\ id \in DOMAIN tst
    /\ tst[id].pc = "extracting"
    /\ LET t == TaskById(id) IN
       \/ /\ stop_event
          /\ SetPc(id, AfterMain)
          /\ active_futures' = active_futures \ {id}
          /\ NoOutcome
          /\ UNCHANGED <<tgtFiles, faults>>
       \/ /\ ~stop_event
          /\ archive[t.pack_id] = "complete"
          /\ tgtFiles' = tgtFiles \cup Range(t.files)
          /\ SetPc(id, AfterMain)
          /\ active_futures' = active_futures \ {id}
          /\ NoOutcome
          /\ UNCHANGED faults
       \/ /\ ~stop_event
          /\ \/ archive[t.pack_id] # "complete" /\ Bump
             \/ archive[t.pack_id] = "complete" /\ MayFail /\ Fault
          /\ MainFailed(id)
          /\ UNCHANGED tgtFiles
       \/ /\ ~stop_event
          /\ TimedOut(id)
          /\ UNCHANGED tgtFiles
    /\ TaskFrame
    /\ UNCHANGED <<srcFiles, archive, filelist>>

\* -------------------------------------------------------- cleanup pool
\* _delete_source_files_task, one file per step: return [] when the stop
\* flag is seen, else _remove_file_with_retry, whose failure is only logged.
DeleteStep(id) ==
    /\ CleanupPoolAlive
    /\ id \in DOMAIN tst
    /\ tst[id].del = "run"
    /\ LET t == TaskById(id)
           f == t.files[tst[id].delk + 1]
           after == [tst EXCEPT ![id].delk = @ + 1,
                                ![id].del = IF tst[id].delk + 1 = Len(t.files)
                                            THEN "all" ELSE "run"]
       IN \/ /\ stop_event
             /\ tst' = [tst EXCEPT ![id].del = "empty"]
             /\ UNCHANGED <<srcFiles, faults>>
          \/ /\ ~stop_event
             /\ srcFiles' = srcFiles \ {f}
             /\ tst' = after
             /\ UNCHANGED faults
          \/ /\ ~stop_event /\ f \in srcFiles /\ MayFail /\ Fault
             /\ tst' = after
             /\ UNCHANGED srcFiles
    /\ NoOutcome
    /\ TaskFrame
    /\ UNCHANGED <<tgtFiles, archive, filelist, active_futures>>

\* _cleanup_cache_only on [archive, filelist] of pack p: nothing when the
\* stop flag is set; a removal that exhausts its retries is only logged.
CacheCleaned(p) ==
    \/ /\ stop_event
       /\ UNCHANGED <<archive, filelist, faults>>
    \/ /\ ~stop_event
       /\ archive' = [archive EXCEPT ![p] = "none"]
       /\ filelist' = filelist \ {p}
       /\ UNCHANGED faults
    \/ /\ ~stop_event /\ archive[p] # "none" /\ MayFail /\ Fault
       /\ filelist' = filelist \ {p}
       /\ UNCHANGED archive

\* _final_cleanup_callback, run when the delete future is done and the main
\* callback has attached it: clean the cache, reclaim empty directories of
\* the deleted files, mark complete, credit.
FinalCleanupCallback(id) ==
    /\ PoolsAlive
    /\ id \in DOMAIN tst
    /\ tst[id].pc = "awaitDelete"
    /\ tst[id].del \in {"all", "empty"}
    /\ CacheCleaned(TaskById(id).pack_id)
    /\ tst' = [tst EXCEPT ![id].pc = "done",
                          ![id].reclaimed = (tst[id].del = "all")]
    /\ CompleteEffects(id)
    /\ TaskFrame
    /\ UNCHANGED <<srcFiles, tgtFiles, active_futures>>

\* _main_task_done_callback submitting the cleanup job after it has popped
\* the main future: _cleanup_cache_only (pack, copy-only) or
\* _cleanup_empty_dirs_task (move_large); submit raises RuntimeError once
\* the cleanup pool is shut down.
SubmitCleanup(id) ==
    /\ PoolsAlive
    /\ id \in DOMAIN tst
    /\ tst[id].pc = "submitCleanup"
    /\ IF cleanup_shutdown
       THEN MainFailed(id)
       ELSE /\ SetPc(id, "cleanup")
            /\ active_futures' = active_futures \cup {id}
            /\ NoOutcome
    /\ TaskFrame
    /\ UNCHANGED <<srcFiles, tgtFiles, archive, filelist, faults>>

\* The cleanup job and _cleanup_task_done_callback.
CleanupRun(id) ==
    /\ CleanupPoolAlive
    /\ id \in DOMAIN tst
    /\ tst[id].pc = "cleanup"
    /\ IF TaskById(id).type = "move_large"
       THEN /\ tst' = [tst EXCEPT ![id].pc = "done", ![id].reclaimed = TRUE]
            /\ UNCHANGED <<archive, filelist, faults>>
       ELSE /\ CacheCleaned(TaskById(id).pack_id)
            /\ SetPc(id, "done")
    /\ active_futures' = active_futures \ {id}
    /\ CompleteEffects(id)
    /\ TaskFrame
    /\ UNCHANGED <<srcFiles, tgtFiles>>

\* ------------------------------------------------- _execute_plan: waiting
MainFrame ==
    UNCHANGED <<units, config, resume_session, disk, hist, stop_event, plan,
                completed_task_ids, writer, submitted>>

\* `while self.active_futures:` finds the dictionary empty: leave the `with`
\* block, whose exit shuts the cleanup pool down first.
WaitExit ==
    /\ pc = "wait"
    /\ active_futures = {}
    /\ pc' = "joinCleanup"
    /\ cleanup_shutdown' = TRUE
    /\ UNCHANGED <<raised, transfer_failed, progress, completed_task_queue,
                   active_futures, tst>>
    /\ MainFrame

Queued == {id \in DOMAIN tst : tst[id].pc = "queued"}
FirstQueued == CHOOSE id \in Queued : \A o \in Queued : IndexOf(id) <= IndexOf(o)

\* cancel() of a pending future runs its done-callback at once: the future
\* is popped, result() raises CancelledError, the task is failed.
Cancelled(id) ==
    /\ tst' = [tst EXCEPT ![id].pc = "cancelled"]
    /\ active_futures' = active_futures \ {id}
    /\ FailEffects(id)

\* The stop branch of the wait loop: `for f in self.active_futures:
\* f.cancel()`.  The first future that is cancelled pops itself from the
\* dictionary being iterated, so the loop ends with RuntimeError and the
\* futures behind it stay pending.  Main futures come first in the
\* dictionary; a cleanup future is cancellable until its job has started.
WaitObserveStop ==
    /\ pc = "wait"
    /\ active_futures # {}
    /\ stop_event
    /\ IF Queued # {}
       THEN /\ Cancelled(FirstQueued)
            /\ raised' = TRUE
       ELSE \/ \E id \in active_futures :
                 /\ tst[id].pc = "cleanup"
                 /\ Cancelled(id)
                 /\ raised' = TRUE
            \/ UNCHANGED <<raised, transfer_failed, progress, completed_task_queue,
                           active_futures, tst>>
    /\ pc' = "joinCleanup"
    /\ cleanup_shutdown' = TRUE
    /\ MainFrame

\* shutdown(wait=True) of the cleanup pool returns: no job is left.
JoinCleanup ==
    /\ pc = "joinCleanup"
    /\ \A id \in DOMAIN tst : tst[id].del # "run" /\ tst[id].pc # "cleanup"
    /\ pc' = "joinTransfer"
    /\ UNCHANGED <<raised, transfer_failed, progress, completed_task_queue, pool>>
    /\ MainFrame

\* shutdown(wait=True) of the transfer pool returns: every work item has
\* run or was cancelled, every callback has returned.
JoinTransfer ==
    /\ pc = "joinTransfer"
    /\ \A id \in DOMAIN tst : tst[id].pc \in {"done", "failed", "cancelled"}
    /\ pc' = "finally"
    /\ UNCHANGED <<raised, transfer_failed, progress, completed_task_queue, pool>>
    /\ MainFrame

\* ------------------------------------------------------- session writer
\* A seeded defect: the write leaves the file as it was.
WrittenNothing == session

\* A seeded defect: every write builds the document from memory.
WrittenFromMemory ==
    IF ~cacheDir THEN session
    ELSE [exists |-> TRUE, content |-> "ok", total |-> total_transfer_size,
          task_plan |-> task_plan, completed |-> completed_task_ids]

\* _write_session_to_disk: read the file (or build the document from memory
\* when it is missing), replace completed_task_ids, replace the file; an
\* IOError is logged.
WrittenSession ==
    IF ~cacheDir THEN session
    ELSE [(IF session.exists THEN session
           ELSE [exists |-> TRUE, content |-> "ok", total |-> total_transfer_size,
                 task_plan |-> task_plan, completed |-> {}])
          EXCEPT !.completed = completed_task_ids]

WriterFrame ==
    UNCHANGED <<units, config, resume_session, srcFiles, tgtFiles, archive, filelist, cacheDir,
                sourceRoot, hist, pc, raised, stop_event, transfer_failed, plan,
                progress, pool>>

\* _session_writer_loop takes a task id off the queue.
WriterTake ==
    /\ writer.alive
    /\ completed_task_queue # <<>>
    /\ Head(completed_task_queue) # NoTask
    /\ completed_task_ids' = completed_task_ids \cup {Head(completed_task_queue)}
    /\ completed_task_queue' = Tail(completed_task_queue)
    /\ writer' = [writer EXCEPT !.pending_ids = TRUE]
    /\ UNCHANGED session
    /\ WriterFrame

\* The periodic write: ids are pending and more than 5 s have passed.
WriterPeriodicWrite ==
    /\ writer.alive
    /\ writer.pending_ids
    /\ session' = WrittenSession
    /\ writer' = [writer EXCEPT !.pending_ids = FALSE]
    /\ UNCHANGED <<completed_task_ids, completed_task_queue>>
    /\ WriterFrame

\* The sentinel None: one last write when ids are pending, then exit.
WriterSentinel ==
    /\ writer.alive
    /\ completed_task_queue # <<>>
    /\ Head(completed_task_queue) = NoTask
    /\ session' = IF writer.pending_ids THEN WrittenSession ELSE session
    /\ writer' = [writer EXCEPT !.alive = FALSE]
    /\ completed_task_queue' = Tail(completed_task_queue)
    /\ UNCHANGED completed_task_ids
    /\ WriterFrame

\* ----------------------------------------------------- run(): finally
\* `finally:` puts the sentinel on the queue, then joins the writer.
RunFinally ==
    /\ pc = "finally"
    /\ completed_task_queue' = Append(completed_task_queue, NoTask)
    /\ pc' = "joinWriter"
    /\ UNCHANGED <<units, config, resume_session, disk, hist, raised, stop_event,
                   transfer_failed, plan, progress, completed_task_ids, writer, pool>>

\* A seeded defect: the teardown guard looks at the stop flag only.
AllowedUnlessStopped == ~stop_event

\* The guard of the teardown in run()'s finally block.
TeardownAllowed == ~stop_event /\ ~transfer_failed

\* A seeded defect: the source root is never removed.
RemovesNever == FALSE

\* A seeded defect: the source root is removed in copy-only mode too.
RemovesAlways == TRUE

\* `if not self.copy_only:` before rmtree of the source root.
RemovesSource == ~copy_only

\* The writer is joined; then, under TeardownAllowed: _cleanup (RMDIR, with
\* rmtree as fallback), rmtree of the source root unless copy-only, and
\* _create_symbolic_link when requested (refused while the path exists).
\* cOk, sOk, lOk: whether the cache removal, the source removal and mklink
\* succeed.  The cache directory lies inside the source root.
Teardown ==
    /\ pc = "joinWriter"
    /\ ~writer.alive
    /\ pc' = "returned"
    /\ IF TeardownAllowed
       THEN \E cOk, sOk, lOk \in BOOLEAN :
              LET cacheGone == (cacheDir /\ cOk) \/ (RemovesSource /\ sOk)
                  srcGone == RemovesSource /\ sOk
                  root1 == IF srcGone THEN "gone" ELSE sourceRoot
              IN /\ cOk \/ cacheDir
                 /\ sOk \/ RemovesSource
                 /\ lOk \/ (create_mklink /\ root1 = "gone")
                 /\ IF cOk /\ sOk /\ lOk THEN UNCHANGED faults ELSE MayFail /\ Fault
                 /\ IF cacheGone THEN cacheDir' = FALSE /\ CacheWiped
                                 ELSE UNCHANGED <<cacheDir, archive, filelist, session>>
                 /\ srcFiles' = IF srcGone THEN {} ELSE srcFiles
                 /\ sourceRoot' = IF create_mklink /\ root1 = "gone" /\ lOk
                                  THEN "link" ELSE root1
       ELSE UNCHANGED <<srcFiles, archive, filelist, cacheDir, session, sourceRoot, faults>>
    /\ UNCHANGED <<units, config, resume_session, tgtFiles, runNo, scanNo, raised,
                   stop_event, transfer_failed, plan, progress, sessq, pool>>

\* ------------------------------------------------------ the environment
\* stop(): set the flag, kill every registered archiver child.
Stop ==
    /\ pc # "returned"
    /\ ~stop_event
    /\ MayFail /\ Fault
    /\ stop_event' = TRUE
    /\ UNCHANGED <<units, config, resume_session, disk, runNo, scanNo, pc, raised,
                   transfer_failed, plan, progress, sessq, pool>>

\* The process is killed while the pipeline executes; the engine is started
\* again on the same directories with a resume request.
Kill ==
    /\ pc \in {"wait", "joinCleanup", "joinTransfer", "finally", "joinWriter"}
    /\ runNo < MaxRuns
    /\ runNo' = runNo + 1
    /\ resume_session' = TRUE
    /\ FreshMemory
    /\ UNCHANGED <<units, config, disk, scanNo, faults>>

\* run() has returned; the engine is started again on the same directories
\* with a resume request.
NextRun ==
    /\ pc = "returned"
    /\ runNo < MaxRuns
    /\ sourceRoot # "link"
    /\ runNo' = runNo + 1
    /\ resume_session' = TRUE
    /\ FreshMemory
    /\ UNCHANGED <<units, config, disk, scanNo, faults>>

Next ==
    \/ RunEarlyReturn \/ LoadSession \/ PrepareEnvironment \/ ScanAndPlan
    \/ SaveSession \/ PlanRecoveryTasks \/ SubmitAll
    \/ \E id \in DOMAIN tst :
          \/ StartPack(id) \/ StartResumeExtract(id) \/ StartMoveLarge(id)
          \/ PackEnd(id) \/ ExtractEnd(id)
          \/ DeleteStep(id) \/ FinalCleanupCallback(id)
          \/ SubmitCleanup(id) \/ CleanupRun(id)
    \/ WaitExit \/ WaitObserveStop \/ JoinCleanup \/ JoinTransfer
    \/ WriterTake \/ WriterPeriodicWrite \/ WriterSentinel
    \/ RunFinally \/ Teardown
    \/ Stop \/ Kill \/ NextRun

Spec == Init /\ [][Next]_vars

\* ============================================================ properties
FilesOf(s) == UNION {Range(s[i].files) : i \in DOMAIN s}
Terminal == {"done", "failed", "cancelled"}
ZeroTree == \A f \in Files : sizes[f] = 0
\* The step in which run() leaves its finally block.
RunReturns == pc = "joinWriter" /\ pc' = "returned"

\* C1: on the success path (no stop, no failing archiver call or filesystem
\* operation so far in the migration), when run() has returned every scanned
\* file is under the target at its relative path, whether a pack, a
\* resume_extract or a move_large task carried it; the plan the scan builds
\* covers every scanned file, and no file is in two tasks.
C1_Completeness ==
    /\ (pc = "returned" /\ faults = 0) => Files \subseteq tgtFiles
    /\ pc = "save" => FilesOf(task_plan) = srcFiles
    /\ \A i, j \in DOMAIN AllTasks :
          i # j => Range(AllTasks[i].files) \cap Range(AllTasks[j].files) = {}

\* A resumed run on the success path that carried one file by resume_extract
\* and one by move_large has returned with both at the target.
C1_Witness ==
    /\ pc = "returned" /\ faults = 0 /\ Files \subseteq tgtFiles
    /\ \E a, b \in DOMAIN tst :
          /\ TaskById(a).type = "resume_extract" /\ tst[a].pc = "done"
          /\ TaskById(b).type = "move_large" /\ tst[b].pc = "done"

\* C2: in copy-only mode, in every state of every run, every source file is
\* still at its path, no delete_sources job and no empty-directory
\* reclamation was submitted, the source root is a directory: it was not
\* removed and not replaced by a link, whatever create_mklink says.
C2_CopyOnlyKeepsSource ==
    copy_only =>
        /\ srcFiles = Files
        /\ sourceRoot = "dir"
        /\ \A id \in DOMAIN tst : tst[id].del = "none" /\ ~tst[id].reclaimed

\* A copy-only run with a link request has torn down after carrying a pack
\* and a large file, and a later run on the same directories has returned.
C2_Witness ==
    /\ copy_only /\ create_mklink /\ pc = "returned" /\ runNo > 1
    /\ ~cacheDir /\ Files \subseteq tgtFiles /\ srcFiles = Files
    /\ \E a, b \in DOMAIN tst :
          /\ TaskById(a).type = "pack" /\ tst[a].pc = "done"
          /\ TaskById(b).type = "move_large" /\ tst[b].pc = "done"

\* C3: when preparing the cache or building the plan raised before any task
\* was submitted, the return of run() removes neither the cache directory
\* nor the source root nor any source file, and creates no link.
C3_NoTeardownAfterPlanningError ==
    [][(RunReturns /\ raised /\ submitted = <<>>) =>
           UNCHANGED <<cacheDir, session, sourceRoot, srcFiles>>]_vars

\* C10: a fresh, undisturbed run over a tree of zero-byte files in which
\* every task went through its whole chain records no failure and tears
\* down: no session file is left and, unless copy-only, the source root is
\* gone.
C10_ZeroByteTreeSucceeds ==
    (/\ pc = "returned" /\ ZeroTree /\ faults = 0 /\ runNo = 1
     /\ \A id \in DOMAIN tst : tst[id].pc = "done") =>
        /\ ~transfer_failed
        /\ ~session.exists
        /\ copy_only \/ sourceRoot # "dir"

\* C4: a run that ends with the stop flag set or with a recorded task
\* failure removes nothing when it returns: cache directory, archives,
\* filelists, session file, source files and source root are as they were,
\* and no link is created; if tasks were submitted, the cache directory and
\* the source root are there after the return.
C4_NoTeardownAfterFailureOrStop ==
    /\ []((pc = "returned" /\ (stop_event \/ transfer_failed) /\ submitted # <<>>) =>
             (cacheDir /\ sourceRoot = "dir"))
    /\ [][(RunReturns /\ (stop_event \/ transfer_failed)) =>
             UNCHANGED <<cacheDir, archive, filelist, session, sourceRoot, srcFiles>>]_vars

\* A move-mode run with a link request has returned after a task failure:
\* cache, session file and source root are still there.
C4_Witness ==
    /\ pc = "returned" /\ transfer_failed /\ ~stop_event
    /\ ~copy_only /\ create_mklink
    /\ cacheDir /\ session.exists /\ sourceRoot = "dir"
    /\ \E id \in DOMAIN tst : tst[id].pc = "failed"

\* The stored or planned task record of a task id.
KnownTasks == Range(session.task_plan) \cup Range(AllTasks)

\* C5: a task whose id is in completed_task_ids, in memory or in the session
\* file, has its files at the target, its source files gone (unless
\* copy-only) and, for a pack, its archive and filelist gone from the cache.
C5_CompletedMeansDone ==
    \A t \in KnownTasks :
        t.task_id \in completed_task_ids \cup session.completed =>
            /\ Range(t.files) \subseteq tgtFiles
            /\ copy_only \/ Range(t.files) \cap srcFiles = {}
            /\ t.type = "move_large"
                  \/ (archive[t.pack_id] = "none" /\ t.pack_id \notin filelist)

\* C6: a run restarted with a resume request after a stop or a kill, which
\* loads the stored session, finishes without stop and without recorded
\* failure and whose teardown operations succeed, ends in the final state of
\* an uninterrupted run:
\* every file under the target, the cache directory gone and, unless
\* copy-only, the source root gone.
C6_ResumeEquivalence ==
    [][(RunReturns /\ runNo > 1 /\ resume_session /\ TeardownAllowed
          /\ faults' = faults) =>
           /\ Files \subseteq tgtFiles'
           /\ ~cacheDir'
           /\ copy_only \/ sourceRoot' # "dir"]_vars

StoredIds == TaskIds(session.task_plan)
\* A run that loaded the stored session and has planned its recovery tasks.
Resumed == resume_session /\ pc \notin {"start", "recover"}
AsStored(t) == \E o \in Range(session.task_plan) :
                  t = o \/ (o.type = "pack" /\ t = [o EXCEPT !.type = "resume_extract"])

\* C7: in a resumed run, once the session is loaded and the recovery tasks
\* are planned, the stored tasks that are not in the loaded completed set
\* are exactly the active tasks, each once, as stored or as resume_extract;
\* the bytes of the completed ones are in processed_size; after dispatch
\* each active task was submitted exactly once and every stored task that
\* was not submitted is a completed one.
C7_ResumeSubmitsOnce ==
    /\ (Resumed /\ pc = "dispatch") =>
          /\ TaskIds(AllTasks) = StoredIds \ session.completed
          /\ Len(AllTasks) = Cardinality(TaskIds(AllTasks))
          /\ \A t \in Range(AllTasks) : AsStored(t)
          /\ completed_task_ids = session.completed
          /\ processed_size =
                SumOver(sizes, WalkSource(UNION {Range(t.files) :
                   t \in {o \in Range(session.task_plan) :
                             o.task_id \in session.completed}}))
    /\ (Resumed /\ submitted # <<>>) =>
          /\ Len(submitted) = Cardinality(Range(submitted))
          /\ Range(submitted) = TaskIds(AllTasks)
          /\ DOMAIN tst = Range(submitted)
          /\ StoredIds \ Range(submitted) \subseteq completed_task_ids
          /\ StoredIds \ Range(submitted) \subseteq session.completed

\* A resumed run has submitted a resume_extract and a fresh task while one
\* stored task, already completed, stays out; its bytes are folded in.
C7_Witness ==
    /\ Resumed /\ pc = "wait" /\ processed_size > 0
    /\ StoredIds \ Range(submitted) # {}
    /\ \E a \in DOMAIN tst : TaskById(a).type = "resume_extract"

\* C8: a task whose main phase raised is never put on the completion queue,
\* never enters completed_task_ids in memory or in the session file, and
\* stays in the stored plan; no task is cancelled unless the stop flag is
\* set, and when the pools are joined every submitted task has reached its
\* own end; a resumed run has every stored, not completed task in its
\* active plan.
C8_FailureIsLocal ==
    /\ \A id \in DOMAIN tst : tst[id].pc = "failed" =>
          /\ id \notin Range(completed_task_queue)
          /\ id \notin completed_task_ids \cup session.completed
          /\ session.exists => id \in StoredIds
    /\ (\E id \in DOMAIN tst : tst[id].pc = "cancelled") => stop_event
    /\ pc \in {"finally", "joinWriter", "returned"} =>
          \A id \in DOMAIN tst : tst[id].pc \in Terminal
    /\ (Resumed /\ pc = "dispatch") =>
          StoredIds \ session.completed \subseteq TaskIds(AllTasks)

\* A run has returned in which the first submitted task failed in its main
\* phase and a task submitted after it completed; the failed one is in the
\* stored plan and not completed.
C8_Witness ==
    /\ pc = "returned" /\ ~stop_event /\ session.exists
    /\ \E a, b \in DOMAIN tst :
          /\ IndexOf(a) < IndexOf(b)
          /\ tst[a].pc = "failed" /\ tst[b].pc = "done"
          /\ a \in StoredIds \ session.completed
          /\ b \in session.completed

AfterSuccess == runNo > 1 /\ faults = 0 /\ ~resume_session /\ pc # "start"

\* C11: a run with a resume request that follows a successful run submits
\* no task and leaves the files as they were: all at the target, and under
\* the source all of them (copy-only) or none (move mode).
C11_RerunIsNoOp ==
    AfterSuccess =>
        /\ submitted = <<>>
        /\ tgtFiles = Files
        /\ srcFiles = IF copy_only THEN Files ELSE {}

\* ------------------------------------------- the session store, disturbed
\* The session file disappears or becomes unreadable while the pipeline
\* executes (the case _write_session_to_disk provides for with its
\* FileNotFoundError / JSONDecodeError branch).
SessionLost ==
    /\ pc \in {"wait", "joinCleanup", "joinTransfer", "finally", "joinWriter"}
    /\ session.exists
    /\ MayFail /\ Fault
    /\ session' = NoSession
    /\ UNCHANGED <<units, config, resume_session, srcFiles, tgtFiles, archive, filelist,
                   cacheDir, sourceRoot, runNo, scanNo, pc, raised, stop_event,
                   transfer_failed, plan, progress, sessq, pool>>

\* A call of _write_session_to_disk in which writing the temporary file
\* raises IOError: the error is logged, os.replace is not reached, and the
\* loop goes on as after a write (periodic) or ends (sentinel).
WriterWriteFails ==
    /\ writer.alive /\ writer.pending_ids
    /\ MayFail /\ Fault
    /\ \/ /\ writer' = [writer EXCEPT !.pending_ids = FALSE]
          /\ UNCHANGED completed_task_queue
       \/ /\ completed_task_queue # <<>>
          /\ Head(completed_task_queue) = NoTask
          /\ writer' = [writer EXCEPT !.alive = FALSE]
          /\ completed_task_queue' = Tail(completed_task_queue)
    /\ UNCHANGED <<units, config, resume_session, disk, runNo, scanNo, pc, raised,
                   stop_event, transfer_failed, plan, progress,
                   completed_task_ids, pool>>

\* Between two runs the session file is damaged, or the engine is started
\* with another target directory than the stored one.
SessionDamaged ==
    /\ pc = "start" /\ resume_session
    /\ session.exists /\ session.content = "ok"
    /\ MayFail /\ Fault
    /\ \E k \in {"mismatch", "truncated", "undecodable"} :
          session' = [session EXCEPT !.content = k]
    /\ UNCHANGED <<units, config, resume_session, srcFiles, tgtFiles, archive, filelist,
                   cacheDir, sourceRoot, runNo, scanNo, pc, raised, stop_event,
                   transfer_failed, plan, progress, sessq, pool>>

StoreInit == Init /\ max_workers = 1 /\ ~create_mklink
StoreNext == Next \/ SessionLost \/ WriterWriteFails \/ SessionDamaged
StoreSpec == StoreInit /\ [][StoreNext]_vars

\* C12: every session document on disk has its completed_task_ids among the
\* task ids of its task_plan, after _save_session and after every write of
\* the session writer, also when the writer rebuilt the document because
\* the file was missing.
C12_CompletedWithinPlan ==
    session.exists => session.completed \subseteq TaskIds(session.task_plan)

\* The bytes of a set of task records (tasks own disjoint files).
BytesOf(T) == SumOver(sizes, WalkSource(UNION {Range(t.files) : t \in T}))
\* The percentage _update_progress computes from processed_size.
Percent(p) == (p * 100) \div total_transfer_size
\* The bytes _load_session folded in: those of the stored tasks that are
\* not in the active plan of a resumed run.
FoldedBytes ==
    IF resume_session
    THEN BytesOf({t \in Range(session.task_plan) : t.task_id \notin TaskIds(AllTasks)})
    ELSE 0

\* C13: while the stored plan is on disk, processed_size is the folded bytes
\* plus the bytes of the tasks that have ended, each counted once; it never
\* exceeds
\* total_transfer_size, so no percentage is above 100, the last reported
\* percentage is at most the current one, and within a run processed_size
\* and the reported percentage never go down.
C13_ProgressMonotoneBounded ==
    /\ []((submitted # <<>> /\ (resume_session => session.exists)) =>
            processed_size =
               FoldedBytes + BytesOf({TaskById(id) : id \in
                                 {i \in DOMAIN tst : tst[i].pc \in Terminal}}))
    /\ [](submitted # <<>> =>
            /\ processed_size <= total_transfer_size
            /\ total_transfer_size > 0 =>
                  /\ Percent(processed_size) <= 100
                  /\ last_reported_progress <= Percent(processed_size))
    /\ [][pc' # "start" =>
            /\ processed_size' >= processed_size
            /\ last_reported_progress' >= last_reported_progress]_vars

\* A resumed run with folded bytes has returned after one of its tasks
\* failed: every byte of the stored plan is accounted for once.
C13_Witness ==
    /\ Resumed /\ pc = "returned" /\ total_transfer_size > 0
    /\ FoldedBytes > 0 /\ FoldedBytes < processed_size
    /\ processed_size = total_transfer_size
    /\ \E id \in DOMAIN tst : tst[id].pc = "failed"

\* ===================================================== command runner
\* _run_command_with_retry in NCmdWorkers pool threads against stop().
\* Each of the engine's configuration fields has one value here.
OneConfig ==
    /\ sizes = [f \in Files |-> 1]
    /\ ~copy_only /\ ~create_mklink /\ ~resume_session
    /\ max_workers = 1

CmdInit == Init /\ OneConfig

CmdFrame ==
    UNCHANGED <<config, resume_session, disk, hist, pc, raised, transfer_failed,
                plan, progress, sessq, pool, dirv, planv, clockv>>

CmdGo(w, p, n) == cmd' = [cmd EXCEPT ![w] = [pc |-> p, i |-> n]]

\* A task calls _run_command_with_retry: the loop starts with i = 0.
CmdEnter(w) ==
    /\ cmd[w].pc \in {"idle", "returned", "raised"}
    /\ CmdGo(w, "check", 0)
    /\ UNCHANGED <<procs, active_processes, stop_pc, stop_event>>
    /\ CmdFrame

\* The flag test at the head of the loop body.
CmdCheck(w) ==
    /\ cmd[w].pc = "check"
    /\ CmdGo(w, IF stop_event THEN "returned" ELSE "popen", cmd[w].i)
    /\ UNCHANGED <<procs, active_processes, stop_pc, stop_event>>
    /\ CmdFrame

\* subprocess.Popen: the child runs from here on.
CmdPopen(w) ==
    /\ cmd[w].pc = "popen"
    /\ procs' = [procs EXCEPT ![w] = "running"]
    /\ CmdGo(w, "add", cmd[w].i)
    /\ UNCHANGED <<active_processes, stop_pc, stop_event>>
    /\ CmdFrame

\* with _process_lock: _active_processes.add(process)
CmdAdd(w) ==
    /\ cmd[w].pc = "add"
    /\ active_processes' = active_processes \cup {w}
    /\ CmdGo(w, "communicate", cmd[w].i)
    /\ UNCHANGED <<procs, stop_pc, stop_event>>
    /\ CmdFrame

\* The archiver child ends by itself.
ChildExits(w) ==
    /\ procs[w] = "running"
    /\ procs' = [procs EXCEPT ![w] = "exited"]
    /\ UNCHANGED <<cmd, active_processes, stop_pc, stop_event>>
    /\ CmdFrame

\* communicate() returns once the child has ended.
CmdCommunicate(w) ==
    /\ cmd[w].pc = "communicate" /\ procs[w] # "running"
    /\ CmdGo(w, "discard", cmd[w].i)
    /\ UNCHANGED <<procs, active_processes, stop_pc, stop_event>>
    /\ CmdFrame

\* communicate() raises TimeoutExpired: the handler first discards the
\* child from the registry under the lock.
CmdTimeout(w) ==
    /\ cmd[w].pc = "communicate" /\ procs[w] = "running"
    /\ active_processes' = active_processes \ {w}
    /\ CmdGo(w, "timeout_kill", cmd[w].i)
    /\ UNCHANGED <<procs, stop_pc, stop_event>>
    /\ CmdFrame

\* A seeded defect: no attempt is the last one.
LastAttemptNever(i) == FALSE

\* if i == retries - 1: raise
LastAttempt(i) == i = Retries - 1

\* ... then kills it; returns on stop, raises after the last attempt,
\* otherwise goes round the loop.
CmdTimeoutKill(w) ==
    /\ cmd[w].pc = "timeout_kill"
    /\ procs' = [procs EXCEPT ![w] = IF @ = "running" THEN "killed" ELSE @]
    /\ IF stop_event THEN CmdGo(w, "returned", cmd[w].i)
       ELSE IF LastAttempt(cmd[w].i) THEN CmdGo(w, "raised", cmd[w].i)
       ELSE CmdGo(w, "check", cmd[w].i + 1)
    /\ UNCHANGED <<active_processes, stop_pc, stop_event>>
    /\ CmdFrame

\* with _process_lock: _active_processes.discard(process)
CmdDiscard(w) ==
    /\ cmd[w].pc = "discard"
    /\ active_processes' = active_processes \ {w}
    /\ CmdGo(w, "recheck", cmd[w].i)
    /\ UNCHANGED <<procs, stop_pc, stop_event>>
    /\ CmdFrame

\* After communicate(): return on stop; a non-zero exit code raises
\* CalledProcessError, which the generic handler re-raises.
CmdRecheck(w) ==
    /\ cmd[w].pc = "recheck"
    /\ \/ /\ stop_event
          /\ CmdGo(w, "returned", cmd[w].i)
       \/ /\ ~stop_event /\ procs[w] = "exited"
          /\ CmdGo(w, "returned", cmd[w].i)
       \/ /\ ~stop_event
          /\ CmdGo(w, "raised", cmd[w].i)
    /\ UNCHANGED <<procs, active_processes, stop_pc, stop_event>>
    /\ CmdFrame

\* stop(): _stop_event.set()
StopSet ==
    /\ stop_pc = "idle"
    /\ stop_event' = TRUE
    /\ stop_pc' = "kill"
    /\ UNCHANGED <<cmd, procs, active_processes>>
    /\ CmdFrame

\* stop(): under the lock, kill every registered child and clear the
\* registry; then stop() returns.
StopKill ==
    /\ stop_pc = "kill"
    /\ procs' = [w \in CmdWorkers |->
                   IF w \in active_processes /\ procs[w] = "running"
                   THEN "killed" ELSE procs[w]]
    /\ active_processes' = {}
    /\ stop_pc' = "returned"
    /\ UNCHANGED <<cmd, stop_event>>
    /\ CmdFrame

CmdNext ==
    \/ \E w \in CmdWorkers :
          \/ CmdEnter(w) \/ CmdCheck(w) \/ CmdPopen(w) \/ CmdAdd(w)
          \/ ChildExits(w) \/ CmdCommunicate(w) \/ CmdTimeout(w)
          \/ CmdTimeoutKill(w) \/ CmdDiscard(w) \/ CmdRecheck(w)
    \/ StopSet \/ StopKill

CmdSpec == CmdInit /\ [][CmdNext]_vars

\* C14: once stop() has returned, no archiver child the engine spawned is
\* running, the process registry is empty, and no child is spawned later.
C14_NoChildAfterStop ==
    /\ [](stop_pc = "returned" =>
            /\ \A w \in CmdWorkers : procs[w] # "running"
            /\ active_processes = {})
    /\ [][stop_pc = "returned" =>
            \A w \in CmdWorkers : procs'[w] = "running" => procs[w] = "running"]_vars

\* stop() has returned, and a worker that passed the flag test before the
\* flag was set has spawned a child since and registered it.
C14_Witness ==
    /\ stop_pc = "returned"
    /\ \E w \in CmdWorkers :
          procs[w] = "running" /\ w \in active_processes /\ cmd[w].i = 0

\* ======================================================= stop and run()
\* C15: a run during which stop() was called returns normally: no exception
\* leaves run(), both pools are shut down, every task has ended, the writer
\* has taken the sentinel and ended, and teardown was skipped.
C15_StopReturnsNormally ==
    /\ [](pc = "returned" /\ stop_event =>
            /\ ~raised
            /\ cleanup_shutdown \/ submitted = <<>>
            /\ \A id \in DOMAIN tst : tst[id].pc \in Terminal
            /\ ~writer.alive)
    /\ [][RunReturns /\ stop_event =>
            UNCHANGED <<cacheDir, archive, filelist, session, sourceRoot, srcFiles>>]_vars

\* stop() was called while two tasks were queued behind a running one; the
\* wait loop cancelled the first of them and run() has ended.
C15_Witness ==
    /\ pc = "returned" /\ stop_event /\ raised
    /\ \E id \in DOMAIN tst : tst[id].pc = "cancelled"

\* ===================================================== empty directories
\* _cleanup_empty_dirs in the cleanup workers of NDirTasks tasks.  Task t
\* owns the files f with owner[f] = t; file f lies in directory home[f].
\* A task removes its source files, then walks upward from their
\* directories.
Dirname(d) == d \div 2

RECURSIVE Under(_, _)
\* Directory d is e or lies below e.
Under(d, e) == d = e \/ (d # SourceRoot /\ Under(Dirname(d), e))

\* os.listdir(d): the files and directories in d; the cache directory, in
\* source_dir, holds the session file.
Listdir(d) ==
    {<<"file", f>> : f \in {g \in file_exists : home[g] = d}}
    \cup {<<"dir", e>> : e \in {c \in dir_exists \cap SubDirs : Dirname(c) = d}}
    \cup (IF d = SourceRoot /\ CacheDirId \in dir_exists
          THEN {<<"dir", CacheDirId>>} ELSE {})
    \cup (IF d = CacheDirId THEN {<<"file", 0>>} ELSE {})

DirInit ==
    /\ EngineInit /\ OneConfig /\ CmdIdle /\ PlanIdle /\ ClockIdle
    /\ home \in [DirFiles -> {SourceRoot} \cup SubDirs]
    /\ owner \in [DirFiles -> DirTasks]
    /\ dir_exists = {SourceRoot, CacheDirId} \cup SubDirs
    /\ file_exists = DirFiles
    /\ walk = [t \in DirTasks |->
                 [pc |-> "delete", todo |-> {f \in DirFiles : owner[f] = t},
                  seeds |-> {}, cur |-> SourceRoot]]

DirFrame ==
    UNCHANGED <<config, resume_session, disk, hist, pc, raised, stop_event,
                transfer_failed, plan, progress, sessq, pool, cmdv, planv, clockv,
                home, owner>>

\* A seeded defect: the walk goes on at source_dir.
WalkContinuesPastRoot(d) == d \in dir_exists

\* while current_dir != base_dir and os.path.isdir(current_dir)
WalkContinues(d) == d # SourceRoot /\ d \in dir_exists

\* A seeded defect: the walk does not go to the parent.
StayDir(d) == d

\* current_dir = os.path.dirname(current_dir)
NextDir(d) == Dirname(d)

\* The task's source files leave the source tree one by one (the delete
\* job of a pack, shutil.move of a large file); a removal that fails after
\* its retries is only logged and the file stays.
DirRemoveFile(t) ==
    /\ walk[t].pc = "delete" /\ walk[t].todo # {}
    /\ LET f == CHOOSE g \in walk[t].todo : \A h \in walk[t].todo : g <= h IN
          /\ walk' = [walk EXCEPT ![t].todo = @ \ {f}]
          /\ \/ file_exists' = file_exists \ {f}
             \/ UNCHANGED file_exists
    /\ UNCHANGED dir_exists
    /\ DirFrame

\* dirs_to_check = set(os.path.dirname(f['path']) ...)
DirBegin(t) ==
    /\ walk[t].pc = "delete" /\ walk[t].todo = {}
    /\ walk' = [walk EXCEPT ![t].pc = "pick",
                            ![t].seeds = {home[f] : f \in {g \in DirFiles : owner[g] = t}}]
    /\ UNCHANGED <<dir_exists, file_exists>>
    /\ DirFrame

\* for d in dirs_to_check: current_dir = d  (a set: any order)
DirPick(t) ==
    /\ walk[t].pc = "pick"
    /\ IF walk[t].seeds = {}
       THEN walk' = [walk EXCEPT ![t].pc = "done"]
       ELSE \E d \in walk[t].seeds :
               walk' = [walk EXCEPT ![t].pc = "while", ![t].seeds = @ \ {d},
                                    ![t].cur = d]
    /\ UNCHANGED <<dir_exists, file_exists>>
    /\ DirFrame

DirWhile(t) ==
    /\ walk[t].pc = "while"
    /\ walk' = [walk EXCEPT ![t].pc = IF WalkContinues(walk[t].cur)
                                      THEN "listdir" ELSE "pick"]
    /\ UNCHANGED <<dir_exists, file_exists>>
    /\ DirFrame

\* os.listdir: OSError when the directory is gone, break when it has entries.
DirList(t) ==
    /\ walk[t].pc = "listdir"
    /\ walk' = [walk EXCEPT ![t].pc =
                   IF walk[t].cur \in dir_exists /\ Listdir(walk[t].cur) = {}
                   THEN "rmdir" ELSE "pick"]
    /\ UNCHANGED <<dir_exists, file_exists>>
    /\ DirFrame

\* os.rmdir: OSError when the directory is gone or not empty.
DirRmdir(t) ==
    /\ walk[t].pc = "rmdir"
    /\ IF walk[t].cur \in dir_exists /\ Listdir(walk[t].cur) = {}
       THEN /\ dir_exists' = dir_exists \ {walk[t].cur}
            /\ walk' = [walk EXCEPT ![t].pc = "while", ![t].cur = NextDir(@)]
       ELSE /\ walk' = [walk EXCEPT ![t].pc = "pick"]
            /\ UNCHANGED dir_exists
    /\ UNCHANGED file_exists
    /\ DirFrame

DirNext ==
    \E t \in DirTasks :
       \/ DirRemoveFile(t) \/ DirBegin(t) \/ DirPick(t)
       \/ DirWhile(t) \/ DirList(t) \/ DirRmdir(t)

DirSpec == DirInit /\ [][DirNext]_vars

HomesUnder(d) == {f \in DirFiles : Under(home[f], d)}
\* Every task owning a file under d has finished, and all these files left.
Emptied(d) ==
    /\ HomesUnder(d) # {}
    /\ HomesUnder(d) \cap file_exists = {}
    /\ \A f \in HomesUnder(d) : walk[owner[f]].pc = "done"

C17_WalkStopsAtRoot ==
    /\ [](/\ SourceRoot \in dir_exists /\ CacheDirId \in dir_exists
          /\ \A t \in DOMAIN walk :
                walk[t].pc \in {"listdir", "rmdir"} => walk[t].cur # SourceRoot)
    /\ [][\A d \in dir_exists \ dir_exists' : Listdir(d) = {} /\ d # SourceRoot]_vars
    /\ [][\A t \in DOMAIN walk :
             (walk[t].pc = "listdir" /\ walk'[t] # walk[t] /\ Listdir(walk[t].cur) # {})
                => (walk'[t].pc = "pick" /\ walk'[t].cur = walk[t].cur)]_vars

\* A walk came up from a removed directory to directory 1 under source_dir,
\* removed it too and ended at source_dir.
C17_Witness ==
    /\ 1 \notin dir_exists /\ SourceRoot \in dir_exists
    /\ \E t \in DirTasks :
          walk[t].pc = "pick" /\ walk[t].cur = SourceRoot /\ home[1] # SourceRoot
          /\ \A f \in DirFiles : owner[f] = t

\* ============================================================== planner
\* _scan_and_plan on scan results of up to NPlanFiles files: all_files[i]
\* is the size of file i in MiB; chunk_file_limit is the constructor's
\* argument.
PlanSizes == <<0, LargeFloorMb, ChunkSizeMb, LargeCapMb, 500>>

RECURSIVE Listing(_, _)
\* The scan result with c[k] files of size PlanSizes[k], for k up to m.
Listing(c, m) ==
    IF m = 0 THEN <<>> ELSE Listing(c, m - 1) \o [i \in 1..c[m] |-> PlanSizes[m]]

PlanInit ==
    /\ EngineInit /\ CmdIdle /\ DirIdle /\ ClockIdle
    /\ sizes = [f \in Files |-> 1]
    /\ ~copy_only /\ ~create_mklink /\ ~resume_session
    /\ all_files \in {Listing(c, Len(PlanSizes)) :
                        c \in {d \in [DOMAIN PlanSizes -> 0..NPlanFiles] :
                                 SumOver(d, [k \in DOMAIN PlanSizes |-> k]) <= NPlanFiles}}
    /\ chunk_file_limit \in {1, 2, ChunkFileLimit}

\* random.shuffle: the orders tried are the rotations of the list.
Shuffles(n) == {[i \in 1..n |-> ((i + k - 1) % n) + 1] : k \in 0..Max(n - 1, 0)}

PlanScan ==
    /\ pc = "start"
    /\ LET all == [i \in 1..Len(all_files) |-> i] IN
          /\ total_transfer_size' = SumOver(all_files, all)
          /\ \E perm \in Shuffles(NumSmall(all_files, all)) :
                task_plan' = PlanTasks(all_files, all, perm, max_workers,
                                       ChunkSizeMb, chunk_file_limit, 0)
    /\ pc' = "save"
    /\ UNCHANGED <<units, config, resume_session, disk, hist, raised, stop_event,
                   transfer_failed, recovery_tasks, progress, sessq, pool>>

PlanSpec == PlanInit /\ [][PlanScan]_vars

OfType(s, ty) == {t \in Range(s) : t.type = ty}

\* C18: no pack of the plan holds more than chunk_file_limit files.
C18_PackWithinFileLimit ==
    pc = "save" => \A t \in OfType(task_plan, "pack") : Len(t.files) <= chunk_file_limit

\* Two small files, one worker, a limit of one file per pack: the plan's
\* only pack holds both.
C18_Witness ==
    /\ pc = "save" /\ max_workers = 1 /\ chunk_file_limit = 1
    /\ \E t \in OfType(task_plan, "pack") : Len(t.files) = 2

OrderInit ==
    /\ EngineWith({ChunkSizeMb, LargeCapMb})
    /\ CmdIdle /\ DirIdle /\ PlanIdle /\ ClockIdle

OrderSpec == OrderInit /\ [][Next]_vars

\* The step in which a worker takes the pack task id.
PackStarts(id) ==
    /\ id \in DOMAIN tst /\ id \in DOMAIN tst'
    /\ TaskById(id).type = "pack"
    /\ tst[id].pc = "queued" /\ tst'[id].pc \notin {"queued", "cancelled"}

Recovering(S) ==
    {id \in DOMAIN tst : TaskById(id).type = "resume_extract" /\ tst[id].pc \in S}

\* C20 as stated: for every W, no fresh pack starts before the extraction
\* of every resume_extract task has finished.
C20_AsStated ==
    [][\A id \in DOMAIN tst :
          PackStarts(id) => Recovering({"queued", "extracting"}) = {}]_vars

\* C20: no fresh pack starts while a resume_extract task is waiting for a
\* worker, and with one worker no fresh pack starts before the extraction
\* of every resume_extract task has finished.
C20_RecoveryStartsFirst ==
    [][\A id \in DOMAIN tst :
          PackStarts(id) =>
             /\ Recovering({"queued"}) = {}
             /\ max_workers = 1 => Recovering({"extracting"}) = {}]_vars

\* With one worker, in a resumed run, the resume_extract task is done and
\* the fresh pack is being created.
C20_Witness ==
    /\ Resumed /\ max_workers = 1
    /\ \E a, b \in DOMAIN tst :
          /\ TaskById(a).type = "resume_extract" /\ tst[a].pc = "done"
          /\ TaskById(b).type = "pack" /\ tst[b].pc = "packing"

\* ========================================================== data safety
\* C21: in move mode, while the source root stands, every file has its
\* content at its source path, in a complete archive of a pack that holds
\* it, or at its target path; stated for migrations whose runs were at most
\* killed and resumed (no failing operation, no stop).
C21_NoFileLost ==
    (~copy_only /\ sourceRoot = "dir" /\ faults = 0) =>
        \A f \in Files :
           \/ f \in srcFiles
           \/ f \in tgtFiles
           \/ \E t \in KnownTasks :
                 /\ t.type # "move_large" /\ f \in Range(t.files)
                 /\ archive[t.pack_id] = "complete"

\* A resumed run took a partial archive for a resume_extract task, its
\* delete job removed the source file, and the extract failed.
C21_Witness ==
    /\ Resumed /\ ~copy_only /\ sourceRoot = "dir"
    /\ \E id \in DOMAIN tst :
          /\ TaskById(id).type = "resume_extract" /\ tst[id].pc = "failed"
          /\ archive[TaskById(id).pack_id] = "partial"
          /\ \E f \in Range(TaskById(id).files) : f \notin srcFiles \cup tgtFiles

\* ================================================ the wait on the pools
\* C22: in a first run without stop and without a failing operation, the
\* cleanup pool is not shut down while a task still has a cleanup job to
\* submit, and no task fails.
C22_NoFailureWithoutFault ==
    (faults = 0 /\ runNo = 1) =>
        /\ \A id \in DOMAIN tst : tst[id].pc # "failed"
        /\ cleanup_shutdown => \A id \in DOMAIN tst : tst[id].pc # "submitCleanup"

\* Without any disturbance the wait loop found active_futures empty between
\* the pop of a main future and the submission of its cleanup job; the
\* submission was refused and the task failed, its files being at the target.
C22_Witness ==
    /\ faults = 0 /\ runNo = 1 /\ cleanup_shutdown
    /\ \E id \in DOMAIN tst :
          tst[id].pc = "failed" /\ Range(TaskById(id).files) \subseteq tgtFiles

\* ================================================ order within one pack
\* C23: for a pack in move mode: the delete job is dispatched, and the
\* extract entered, only after the archiver create has returned; the
\* per-task cleanup (archive and filelist removed, task done, bytes
\* credited) happens in one step that finds the extract returned and the
\* delete job finished; the archive is removed by no other step of the
\* running pipeline.
C23_PackStepsOrdered ==
    /\ [](~copy_only =>
            \A id \in DOMAIN tst :
               TaskById(id).type = "pack" =>
                  /\ tst[id].del # "none" => tst[id].pc \notin {"queued", "packing"}
                  /\ tst[id].pc = "done" => tst[id].del \in {"all", "empty"})
    /\ [][(~copy_only /\ pc' = pc /\ pc \in {"wait", "joinCleanup", "joinTransfer"}) =>
            \A id \in DOMAIN tst :
               LET t == TaskById(id) IN
               (/\ t.type \in {"pack", "resume_extract"}
                /\ \/ tst'[id].pc = "done" /\ tst[id].pc # "done"
                   \/ archive'[t.pack_id] = "none" /\ archive[t.pack_id] # "none"
                   \/ processed_size' # processed_size /\ tst'[id] # tst[id]
                         /\ tst'[id].pc = "done")
               => /\ tst[id].pc = "awaitDelete"
                  /\ tst[id].del \in {"all", "empty"}
                  /\ tst'[id].pc = "done"]_vars

\* The delete job of a pack of two files has removed both source files
\* and finished while the extract of the same pack is still running.
C23_Witness ==
    /\ ~copy_only /\ faults = 0
    /\ \E id \in DOMAIN tst :
          /\ TaskById(id).type = "pack"
          /\ tst[id].pc = "extracting" /\ tst[id].del = "all"
          /\ Range(TaskById(id).files) \cap srcFiles = {}
          /\ Len(TaskById(id).files) = 2

\* ================================================= failure of the pack phase
\* C24: the step in which the archiver create of a pack fails (non-zero
\* exit, or the last timeout) deletes no source file, puts no file at the
\* target, removes neither archive nor filelist, dispatches no delete job,
\* enqueues no completion and credits the task's bytes once; the task then
\* stays failed, with no job of its own, for the rest of the run.
C24_PackFailureStopsTask ==
    /\ [][\A id \in DOMAIN tst :
             (/\ ~stop_event /\ tst[id].pc = "packing"
              /\ id \in DOMAIN tst' /\ tst'[id].pc = "failed")
             => /\ UNCHANGED <<srcFiles, tgtFiles, archive, filelist,
                               completed_task_queue, completed_task_ids>>
                /\ tst'[id].del = "none"
                /\ transfer_failed'
                /\ processed_size' = processed_size + TaskSize(TaskById(id))]_vars
    /\ [][\A id \in DOMAIN tst :
             (tst[id].pc = "failed" /\ tst[id].del = "none" /\ id \in DOMAIN tst')
             => /\ tst'[id] = tst[id]
                /\ id \notin Range(completed_task_queue')]_vars

\* A pack of two files has failed after its last timed-out create call: its
\* partial archive and its filelist are in the cache, its files at the
\* source, nothing is enqueued and its bytes are credited.
C24_Witness ==
    /\ ~copy_only /\ ~stop_event /\ transfer_failed
    /\ \E id \in DOMAIN tst :
          LET t == TaskById(id) IN
          /\ t.type = "pack" /\ tst[id].pc = "failed"
          /\ tst[id].attempt = Retries - 1 /\ tst[id].del = "none"
          /\ archive[t.pack_id] = "partial" /\ t.pack_id \in filelist
          /\ Len(t.files) = 2 /\ Range(t.files) \subseteq srcFiles
          /\ completed_task_queue = <<>>
          /\ processed_size = TaskSize(t) /\ processed_size > 0

\* ================================================ cancelled archiver call
\* C25: a task whose archiver call (create or extract) returns because the
\* stop flag is set does not go on as after a success: it dispatches no
\* delete job and does not proceed to extract, cleanup or completion.
C25_CancelledCallStopsTask ==
    [][\A id \in DOMAIN tst :
          (/\ stop_event /\ tst[id].pc \in {"packing", "extracting"}
           /\ id \in DOMAIN tst' /\ tst'[id].pc # tst[id].pc)
          => /\ tst'[id].pc \notin {"extracting", "awaitDelete", "submitCleanup",
                                     "cleanup", "done"}
             /\ tst'[id].del = tst[id].del]_vars

\* After stop() a pack whose create call was cancelled is done and enqueued
\* as complete; its archive is partial and none of its files is at the
\* target.
C25_Witness ==
    /\ stop_event
    /\ \E id \in DOMAIN tst :
          LET t == TaskById(id) IN
          /\ t.type = "pack" /\ tst[id].pc = "done"
          /\ archive[t.pack_id] = "partial"
          /\ Range(t.files) \cap tgtFiles = {}
          /\ id \in Range(completed_task_queue) \cup completed_task_ids

\* ====================================================== attempts of a call
\* C26: one call of _run_command_with_retry spawns at most Retries
\* children; a further child is spawned only after the one before timed out
\* with the stop flag clear; a call that raises or returns after the child
\* ended spawns nothing more; the last timeout raises; and whenever the call
\* has ended its child is not in the process registry.
C26_BoundedAttempts ==
    /\ [](\A w \in CmdWorkers :
            /\ cmd[w].i \in 0..(Retries - 1)
            /\ cmd[w].pc \in {"returned", "raised"} => w \notin active_processes)
    /\ [][\A w \in CmdWorkers :
            /\ (procs'[w] = "running" /\ procs[w] # "running")
               => cmd[w].pc = "popen" /\ cmd'[w].i = cmd[w].i
            /\ (cmd'[w].pc = "popen" /\ cmd[w].pc # "popen")
               => cmd[w].pc = "check" /\ ~stop_event /\ cmd'[w].i = cmd[w].i
            /\ (cmd'[w].pc = "check" /\ cmd[w].pc # "check")
               => \/ cmd[w].pc \in {"idle", "returned", "raised"} /\ cmd'[w].i = 0
                  \/ /\ cmd[w].pc = "timeout_kill" /\ ~stop_event
                     /\ cmd'[w].i = cmd[w].i + 1
                     /\ procs'[w] \in {"exited", "killed"}
            /\ (cmd[w].pc = "recheck" /\ cmd'[w].pc # "recheck")
               => cmd'[w].pc \in {"returned", "raised"}
            /\ (cmd[w].pc = "timeout_kill" /\ cmd[w].i = Retries - 1
                  /\ ~stop_event /\ cmd'[w] # cmd[w])
               => cmd'[w].pc = "raised"
            /\ (cmd'[w].pc = "raised" /\ cmd[w].pc # "raised")
               => ~stop_event /\ procs'[w] \in {"exited", "killed"}]_vars

\* A call whose Retries children all timed out has raised, with the stop
\* flag clear and the last child killed and out of the registry.
C26_Witness ==
    \E w \in CmdWorkers :
       /\ cmd[w].pc = "raised" /\ cmd[w].i = Retries - 1
       /\ procs[w] = "killed" /\ ~stop_event /\ w \notin active_processes

\* ================================================= tasks pending at stop
\* C27: once the wait loop of _execute_plan has observed the stop flag, no
\* task that has not started yet starts: it is cancelled or stays pending,
\* and writes no filelist and moves or copies no file.
C27_PendingNeverStartAfterStop ==
    [][(stop_event /\ pc \in {"joinCleanup", "joinTransfer"}) =>
          \A id \in DOMAIN tst :
             (tst[id].pc = "queued" /\ id \in DOMAIN tst')
             => /\ tst'[id].pc \in {"queued", "cancelled"}
                /\ UNCHANGED <<filelist, tgtFiles, srcFiles>>]_vars

\* The wait loop cancelled the first pending task and ended with the
\* iteration error; a task submitted behind it has run since and its file
\* is at the target.
C27_Witness ==
    /\ stop_event /\ raised
    /\ \E id, later \in DOMAIN tst :
          /\ tst[id].pc = "cancelled"
          /\ IndexOf(later) > IndexOf(id)
          /\ tst[later].pc \notin {"queued", "cancelled", "failed"}
          /\ Range(TaskById(later).files) \subseteq tgtFiles
          /\ Range(TaskById(id).files) \cap tgtFiles = {}

TimedInit ==
    /\ Init
    /\ sizes = [f \in Files |-> LargeCapMb]
    /\ ~copy_only /\ ~create_mklink /\ ~resume_session

TimedFrame ==
    UNCHANGED <<cmdv, dirv, planv, config, resume_session, srcFiles, tgtFiles,
                archive, filelist, cacheDir, sourceRoot, hist, pc, raised,
                stop_event, transfer_failed, plan, progress, pool>>

\* A seeded defect: a write is due whenever ids are pending.
WriteDueAlways(current_time, last) == TRUE

\* current_time - last_write_time > 5.0
WriteDue(current_time, last) == current_time - last > WriteInterval

\* Time passes.
Tick ==
    /\ now < MaxTime
    /\ now' = now + 1
    /\ UNCHANGED <<cmdv, dirv, planv, last_write_time, writer_pc, write_log,
                   config, resume_session, disk, hist, pc, raised, stop_event,
                   transfer_failed, plan, progress, sessq, pool>>

\* completed_task_queue.get returns a task id.
TimedTake ==
    /\ writer.alive /\ writer_pc = "get"
    /\ completed_task_queue # <<>>
    /\ Head(completed_task_queue) # NoTask
    /\ completed_task_ids' = completed_task_ids \cup {Head(completed_task_queue)}
    /\ completed_task_queue' = Tail(completed_task_queue)
    /\ writer' = [writer EXCEPT !.pending_ids = TRUE]
    /\ writer_pc' = "check"
    /\ UNCHANGED <<session, now, last_write_time, write_log>>
    /\ TimedFrame

\* completed_task_queue.get times out: queue.Empty is passed over.
TimedEmpty ==
    /\ writer.alive /\ writer_pc = "get"
    /\ completed_task_queue = <<>>
    /\ writer_pc' = "check"
    /\ UNCHANGED <<session, sessq, now, last_write_time, write_log>>
    /\ TimedFrame

\* completed_task_queue.get returns None: flush when ids are pending, break.
TimedSentinel ==
    /\ writer.alive /\ writer_pc = "get"
    /\ completed_task_queue # <<>>
    /\ Head(completed_task_queue) = NoTask
    /\ IF writer.pending_ids
       THEN /\ session' = WrittenSession
            /\ write_log' = Append(write_log, [at |-> now, periodic |-> FALSE])
       ELSE UNCHANGED <<session, write_log>>
    /\ writer' = [writer EXCEPT !.alive = FALSE]
    /\ completed_task_queue' = Tail(completed_task_queue)
    /\ writer_pc' = "ended"
    /\ UNCHANGED <<completed_task_ids, now, last_write_time>>
    /\ TimedFrame

\* current_time = time.time(); the periodic write when it is due.
TimedCheck ==
    /\ writer.alive /\ writer_pc = "check"
    /\ IF writer.pending_ids /\ WriteDue(now, last_write_time)
       THEN /\ session' = WrittenSession
            /\ last_write_time' = now
            /\ writer' = [writer EXCEPT !.pending_ids = FALSE]
            /\ write_log' = Append(write_log, [at |-> now, periodic |-> TRUE])
       ELSE UNCHANGED <<session, last_write_time, writer, write_log>>
    /\ writer_pc' = "get"
    /\ UNCHANGED <<completed_task_ids, completed_task_queue, now>>
    /\ TimedFrame

TimedNext ==
    \/ PrepareEnvironment \/ ScanAndPlan \/ SaveSession \/ SubmitAll
    \/ \E id \in DOMAIN tst :
          StartMoveLarge(id) \/ SubmitCleanup(id) \/ CleanupRun(id)
    \/ WaitExit \/ JoinCleanup \/ JoinTransfer
    \/ RunFinally \/ Teardown
    \/ TimedTake \/ TimedEmpty \/ TimedSentinel \/ TimedCheck
    \/ Tick

TimedSpec == TimedInit /\ [][TimedNext]_vars

C30_WriteKeepsPlan ==
    /\ [][(writer.alive /\ session.exists /\ session' # session /\ pc' = pc
             /\ completed_task_ids' = completed_task_ids /\ writer' # writer) =>
            /\ session'.exists
            /\ session'.total = session.total
            /\ session'.task_plan = session.task_plan
            /\ session'.completed = completed_task_ids
            /\ UNCHANGED <<srcFiles, tgtFiles, archive, filelist, cacheDir,
                           sourceRoot>>]_vars
    /\ [][(writer' # writer /\ faults' # faults) => session' = session]_vars

\* A resumed run has written: the file holds the whole stored plan with both
\* ids completed, while the in-memory plan is the filtered one.
C30_Witness ==
    /\ Resumed /\ session.exists
    /\ Len(session.task_plan) = 2 /\ Len(task_plan) = 1
    /\ session.completed = TaskIds(session.task_plan)
    /\ ~writer.pending_ids

\* ====================================================== rejected session
\* C31: a resume request that finds no readable session of its directories
\* (file missing, not parseable, or of another source or target) uses
\* nothing of it: the run goes on as a fresh one with an empty completed
\* set, no processed bytes, no plan and the cache directory wiped, and the
\* session it saves has an empty completed list.
C31_RejectedSessionRunsFresh ==
    /\ [][(/\ pc = "start" /\ resume_session /\ ~stop_event
           /\ ~(session.exists /\ session.content = "ok")
           /\ pc' # pc /\ runNo' = runNo)
          => /\ pc' = "prepare" /\ ~resume_session' /\ ~raised'
             /\ completed_task_ids' = {} /\ processed_size' = 0
             /\ task_plan' = <<>> /\ total_transfer_size' = 0
             /\ ~cacheDir' /\ session' = NoSession
             /\ \A p \in PackIds : archive'[p] = "none"]_vars
    /\ []((runNo > 1 /\ ~resume_session /\ pc = "dispatch" /\ session.exists) =>
            /\ session.completed = {} /\ session.content = "ok"
            /\ completed_task_ids = {}
            /\ session.task_plan = task_plan)

\* The resumed run found a session file that is not UTF-8 text: the
\* exception has left run()'s try block, the stored session is still on
\* disk and no fresh plan was made.
C31_Witness ==
    /\ runNo > 1 /\ resume_session /\ raised /\ pc = "finally"
    /\ session.exists /\ session.content = "undecodable"
    /\ cacheDir /\ task_plan = <<>>

\* ====================================================== recovery planning
\* C32: in a resumed run a stored pack that is not completed is a
\* resume_extract task exactly when its archive is in the cache directory;
\* the task has the stored task_id, pack_id and files and is not among the
\* fresh tasks; every recovery task stems from such a pack, once; and a
\* resume_extract task never packs: when it starts, no filelist is written
\* and no archive is created.
C32_RecoveryIffArchive ==
    /\ [](Resumed /\ pc \in {"dispatch", "wait"} =>
            /\ \A o \in Range(session.task_plan) :
                  (o.type = "pack" /\ o.task_id \notin session.completed) =>
                     LET r == [o EXCEPT !.type = "resume_extract"] IN
                     /\ archive[o.pack_id] # "none" /\ pc = "dispatch"
                           => r \in Range(recovery_tasks) /\ o \notin Range(task_plan)
                     /\ archive[o.pack_id] = "none" /\ pc = "dispatch"
                           => r \notin Range(recovery_tasks) /\ o \in Range(task_plan)
            /\ \A r \in Range(recovery_tasks) :
                  /\ r.type = "resume_extract"
                  /\ [r EXCEPT !.type = "pack"] \in Range(session.task_plan)
                  /\ r.task_id \notin TaskIds(task_plan)
            /\ Len(recovery_tasks) = Cardinality(TaskIds(recovery_tasks)))
    /\ [](\A id \in DOMAIN tst :
            TaskById(id).type = "resume_extract" => tst[id].pc # "packing")
    /\ [][\A id \in DOMAIN tst :
            (/\ TaskById(id).type = "resume_extract" /\ id \in DOMAIN tst'
             /\ tst[id].pc = "queued" /\ tst'[id].pc # "queued")
            => UNCHANGED <<filelist, archive>>]_vars

\* A resumed run about to dispatch: of two stored packs, the one whose
\* archive is in the cache is the recovery task, the other stays fresh.
C32_Witness ==
    /\ Resumed /\ pc = "dispatch"
    /\ Len(recovery_tasks) = 1 /\ Len(task_plan) = 1
    /\ task_plan[1].type = "pack"
    /\ archive[recovery_tasks[1].pack_id] = "complete"
    /\ archive[task_plan[1].pack_id] = "none"
    /\ session.completed = {}

\* ======================================================= submission order
\* C33: _execute_plan submits the recovery tasks, in their order, before
\* the fresh tasks, in planner order; and no fresh task, of either type,
\* leaves the queue of the transfer pool while a resume_extract task is
\* still waiting in it.
C33_RecoverySubmittedFirst ==
    /\ [](submitted # <<>> =>
            submitted = [i \in 1..(Len(recovery_tasks) + Len(task_plan)) |->
                           IF i <= Len(recovery_tasks)
                           THEN recovery_tasks[i].task_id
                           ELSE task_plan[i - Len(recovery_tasks)].task_id])
    /\ [][\A id \in DOMAIN tst :
            (/\ id \in DOMAIN tst' /\ TaskById(id).type # "resume_extract"
             /\ tst[id].pc = "queued" /\ tst'[id].pc \notin {"queued", "cancelled"})
            => /\ Recovering({"queued"}) = {}
               /\ \A o \in DOMAIN tst :
                     (TaskById(o).type # "resume_extract" /\ IndexOf(o) < IndexOf(id))
                     => tst[o].pc # "queued"]_vars

\* A resumed run with a recovery task and a fresh large file: the move has
\* started while the extract of the recovery task is still running.
C33_Witness ==
    /\ Resumed /\ max_workers = 2
    /\ \E a, b \in DOMAIN tst :
          /\ TaskById(a).type = "resume_extract" /\ tst[a].pc = "extracting"
          /\ TaskById(b).type = "move_large" /\ tst[b].pc # "queued"
          /\ IndexOf(a) < IndexOf(b)

C36_LargeDoneAfterTransfer ==
    /\ [](\A id \in DOMAIN tst :
            (TaskById(id).type = "move_large" /\ tst[id].pc \in {"cleanup", "done"})
            => /\ TaskById(id).files[1] \in tgtFiles
               /\ tst[id].pc = "done" => (tst[id].reclaimed <=> ~copy_only)
               /\ ~copy_only => TaskById(id).files[1] \notin srcFiles)
    /\ [][\A id \in DOMAIN tst :
            (TaskById(id).type = "move_large" /\ id \in DOMAIN tst') =>
               /\ (id \in Range(completed_task_queue')
                     /\ id \notin Range(completed_task_queue)
                     /\ id \notin completed_task_ids)
                  => /\ tst'[id].pc = "done"
                     /\ tst[id].pc = (IF copy_only THEN "queued" ELSE "cleanup")
               /\ (tst[id].pc = "queued" /\ tst'[id].pc = "failed")
                  => /\ UNCHANGED <<srcFiles, tgtFiles, completed_task_queue>>
                     /\ transfer_failed'
               /\ tst[id].pc = "failed" => tst'[id] = tst[id]]_vars

\* Move mode, two large files: one task is done, its file moved and its
\* directories reclaimed; the move of the other raised and its file is
\* still in the source.
C36_Witness ==
    /\ ~copy_only /\ transfer_failed /\ ~stop_event
    /\ \E a, b \in DOMAIN tst :
          /\ TaskById(a).type = "move_large" /\ tst[a].pc = "done" /\ tst[a].reclaimed
          /\ TaskById(a).files[1] \in tgtFiles \ srcFiles
          /\ TaskById(b).type = "move_large" /\ tst[b].pc = "failed"
          /\ TaskById(b).files[1] \in srcFiles \ tgtFiles
          /\ a \in Range(completed_task_queue) \cup completed_task_ids

\* ================================================================ teardown
\* C37: the teardown happens after the writer has ended; the source root is
\* removed in move mode only and not without the cache directory in it; the
\* link is created only on request, in move mode, in the teardown of a run
\* whose source root is gone, and at most once; in copy-only mode and when
\* the removal failed the source root stays a directory; no teardown touches
\* the files at the target.
C37_TeardownOrder ==
    /\ [][(pc = "joinWriter" /\ pc' = "returned") =>
            /\ ~writer.alive /\ completed_task_queue = <<>>
            /\ tgtFiles' = tgtFiles
            /\ ~TeardownAllowed => UNCHANGED <<sourceRoot, cacheDir, srcFiles>>
            /\ copy_only => UNCHANGED <<sourceRoot, srcFiles>>
            /\ (sourceRoot = "dir" /\ sourceRoot' # "dir")
               => ~copy_only /\ ~cacheDir' /\ srcFiles' = {}
            /\ (sourceRoot' = "link" /\ sourceRoot # "link")
               => create_mklink /\ ~copy_only /\ ~cacheDir' /\ srcFiles' = {}]_vars
    /\ [][sourceRoot' # sourceRoot =>
            \/ pc = "joinWriter" /\ pc' = "returned" /\ sourceRoot # "link"
            \/ sourceRoot' = "dir" /\ sourceRoot = "gone"]_vars
    /\ [](sourceRoot = "link" => create_mklink /\ ~copy_only /\ ~cacheDir /\ srcFiles = {})

\* A move with a link request has ended: every file is at the target, the
\* source root is the link.
C37_Witness ==
    /\ pc = "returned" /\ sourceRoot = "link"
    /\ tgtFiles = Files /\ ~transfer_failed /\ ~stop_event /\ faults = 0

\* ====================================================== progress callback
\* C38: whatever the outcome of the task, _update_progress invokes the
\* status callback only when the integer percentage after the credit is
\* greater than the last reported one.
C38_EmitsOnlyOnAdvance ==
    status_callback.emitted => status_callback.progress > status_callback.last

\* The last credit was that of a failed task: the callback was invoked
\* although the percentage, already reported, did not advance.
C38_Witness ==
    /\ transfer_failed /\ total_transfer_size > 0
    /\ status_callback.emitted
    /\ status_callback.progress = status_callback.last
    /\ last_reported_progress = status_callback.last
    /\ \E id \in DOMAIN tst : tst[id].pc = "failed"

\* ============================================================ termination
\* The engine without stop(): every thread that can take a step eventually
\* takes one (the pools' workers, the writer, the thread of run()), and an
\* archiver call ends by exit or timeout.  The process may still be killed
\* and the engine started again.
EngineStep ==
    \/ LoadSession \/ PrepareEnvironment \/ ScanAndPlan
    \/ SaveSession \/ PlanRecoveryTasks \/ SubmitAll
    \/ \E id \in DOMAIN tst :
          \/ StartPack(id) \/ StartResumeExtract(id) \/ StartMoveLarge(id)
          \/ PackEnd(id) \/ ExtractEnd(id)
          \/ DeleteStep(id) \/ FinalCleanupCallback(id)
          \/ SubmitCleanup(id) \/ CleanupRun(id)
    \/ WaitExit \/ JoinCleanup \/ JoinTransfer
    \/ WriterTake \/ WriterPeriodicWrite \/ WriterSentinel
    \/ RunFinally \/ Teardown

LiveNext == EngineStep \/ Kill \/ NextRun

\* The first run is started without resume_session and without
\* create_mklink (the link is one more call after the teardown); the run
\* that follows a kill resumes.
LiveInit == Init /\ ~resume_session /\ ~create_mklink

LiveSpec == LiveInit /\ [][LiveNext]_vars /\ WF_vars(EngineStep)

====
